---- MODULE Spec2Model ----
(***************************************************************************)
(* A model of the memstore package: the JSON flat-file storage             *)
(* (storage.py), the memory modules (modules.py, base.py) and the manager  *)
(* with its keyword classifier (manager.py).                               *)
(*                                                                         *)
(* Representation.  A Python str of free text is a tuple of one-character  *)
(* strings (so that lower(), strip(), split() and `in` can be computed).   *)
(* A str drawn from a fixed vocabulary (category names, dict keys) is a    *)
(* TLA+ string.  A Python dict is a function from keys to values.  A file  *)
(* is a record [exists, data] whose data is the sequence of JSON tokens    *)
(* written so far.                                                         *)
(***************************************************************************)
EXTENDS Integers, Sequences, FiniteSets, TLC

VARIABLES
    files,      \* storage directory: category name -> [exists, data]
    wr,         \* the save in progress at the storage level (SpecStore)
    committed,  \* per category: the list handed to the last save that returned
    attempted,  \* per category: the list handed to the last save that began
    torn,       \* per category: a save of it was interrupted and none completed since
    nsaved,     \* per category: saves that returned
    nbegun,     \* storage-level saves begun in this run
    items,      \* per manager, per category: GenericMemory._items
    opened,     \* per manager: MemoryManager.__init__ has run
    added,      \* per category: every record any writer's add has returned
    writers,    \* per category: the managers whose add wrote the category
    lastWriter, \* per category: the manager whose add saved the file last (0: none)
    nextId,     \* number of ids handed out (uuid4 is modelled as a fresh token)
    ret         \* what the last operation returned or raised

vars == <<files, wr, committed, attempted, torn, nsaved, nbegun, items, opened, added, writers, lastWriter, nextId, ret>>

(***************************************************************************)
(* Bounds of the model.                                                    *)
(***************************************************************************)
MaxSaves == 2       \* storage-level saves begun in one run
BufTokens == 12     \* tokens the file buffer holds before it is flushed
MaxAdds == 2        \* module-level adds in one run of the writers
MaxItems == 3       \* records ingested in one run of a manager
MaxQueryItems == 2  \* records ingested in one run of the queries

(***************************************************************************)
(* Characters and strings.                                                 *)
(***************************************************************************)
UpperChars == <<"A","B","C","D","E","F","G","H","I","J","K","L","M",
                "N","O","P","Q","R","S","T","U","V","W","X","Y","Z">>
LowerChars == <<"a","b","c","d","e","f","g","h","i","j","k","l","m",
                "n","o","p","q","r","s","t","u","v","w","x","y","z">>

\* str.lower() on one character
LowerChar(c) ==
    IF \E i \in 1..Len(UpperChars) : UpperChars[i] = c
    THEN LowerChars[CHOOSE i \in 1..Len(UpperChars) : UpperChars[i] = c]
    ELSE c

\* str.lower()
RECURSIVE lower(_)
lower(s) == IF s = << >> THEN << >> ELSE <<LowerChar(Head(s))>> \o lower(Tail(s))

\* `sub in s` for Python strings
Contains(sub, s) ==
    \E i \in 0..(Len(s) - Len(sub)) : SubSeq(s, i + 1, i + Len(sub)) = sub

\* the characters str.strip() removes and the ones str.splitlines() breaks at
Whitespace == {" ", "\t", "\n", "\r"}
LineBreaks == {"\n", "\r"}

RECURSIVE lstrip(_)
lstrip(s) ==
    IF s # << >> /\ Head(s) \in Whitespace THEN lstrip(Tail(s)) ELSE s

RECURSIVE rstrip(_)
rstrip(s) ==
    IF s # << >> /\ s[Len(s)] \in Whitespace
    THEN rstrip(SubSeq(s, 1, Len(s) - 1)) ELSE s

\* str.strip()
strip(s) == rstrip(lstrip(s))

\* str.splitlines(): break at \n, \r and \r\n; no empty last line
RECURSIVE splitlinesFrom(_, _, _)
splitlinesFrom(s, cur, acc) ==
    IF s = << >>
    THEN IF cur = << >> THEN acc ELSE Append(acc, cur)
    ELSE IF Head(s) \in LineBreaks
         THEN LET rest == IF Head(s) = "\r" /\ Len(s) >= 2 /\ s[2] = "\n"
                          THEN Tail(Tail(s)) ELSE Tail(s)
              IN  splitlinesFrom(rest, << >>, Append(acc, cur))
         ELSE splitlinesFrom(Tail(s), Append(cur, Head(s)), acc)

splitlines(s) == splitlinesFrom(s, << >>, << >>)

\* a split at the last colon (str.rsplit)
LastColonAt(s) == CHOOSE i \in 1..Len(s) : s[i] = ":" /\ \A j \in (i + 1)..Len(s) : s[j] # ":"
rsplit1(s) == <<SubSeq(s, 1, LastColonAt(s) - 1), SubSeq(s, LastColonAt(s) + 1, Len(s))>>

\* str.split(":", 1) on a string that holds a colon: the text before and after the first colon
ColonAt(s) == CHOOSE i \in 1..Len(s) : s[i] = ":" /\ \A j \in 1..(i - 1) : s[j] # ":"
split1(s) == <<SubSeq(s, 1, ColonAt(s) - 1), SubSeq(s, ColonAt(s) + 1, Len(s))>>

(***************************************************************************)
(* JSON text.  A token is [k, a, s]: k the kind, a the vocabulary string   *)
(* of a key or name, s the characters of a free-text string or the digits  *)
(* of a number.  Separators and indentation belong to the token before.    *)
(***************************************************************************)
Digits == <<"0","1","2","3","4","5","6","7","8","9">>

Punct(k) == [k |-> k, a |-> "", s |-> << >>]
KeyTok(name) == [k |-> "key", a |-> name, s |-> << >>]
NameTok(name) == [k |-> "name", a |-> name, s |-> << >>]
StrTok(chars) == [k |-> "str", a |-> "", s |-> chars]
\* float.__repr__ of a clock reading
NumTok(n) == [k |-> "num", a |-> "", s |-> <<Digits[n + 1]>>]
EOFTok == Punct("eof")

EmptyDict == [x \in {} |-> << >>]
Put(d, key, val) == [x \in (DOMAIN d) \cup {key} |-> IF x = key THEN val ELSE d[x]]

\* MemoryItem.to_dict: the five fields, in dataclass order
FieldOrder == <<"id", "type", "content", "metadata", "created_at">>
\* the metadata keys the package writes, in the order a dump lists them
MetaKeyOrder == <<"speaker", "title", "source">>

RECURSIVE Flatten(_)
Flatten(ss) == IF ss = << >> THEN << >> ELSE Head(ss) \o Flatten(Tail(ss))

DumpMeta(md) ==
    <<Punct("{")>>
    \o Flatten([i \in 1..Len(MetaKeyOrder) |->
                  IF MetaKeyOrder[i] \in DOMAIN md
                  THEN <<KeyTok(MetaKeyOrder[i]), StrTok(md[MetaKeyOrder[i]])>>
                  ELSE << >>])
    \o <<Punct("}")>>

DumpField(it, f) ==
    IF f \notin DOMAIN it THEN << >>
    ELSE <<KeyTok(f)>> \o
         CASE f = "type" -> <<NameTok(it[f])>>
           [] f = "metadata" -> DumpMeta(it[f])
           [] f = "created_at" -> <<NumTok(it[f])>>
           [] OTHER -> <<StrTok(it[f])>>

DumpItem(it) ==
    <<Punct("{")>>
    \o Flatten([i \in 1..Len(FieldOrder) |-> DumpField(it, FieldOrder[i])])
    \o <<Punct("}")>>

\* json.dump(items, f): the tokens it writes, in order
json_dump(its) ==
    <<Punct("[")>> \o Flatten([i \in 1..Len(its) |-> DumpItem(its[i])]) \o <<Punct("]")>>

Tok(toks, i) == IF i <= Len(toks) THEN toks[i] ELSE EOFTok
ParseFail == [ok |-> FALSE, next |-> 0, kind |-> "none", val |-> << >>]
NumOf(s) == (CHOOSE i \in 1..Len(Digits) : Digits[i] = s[1]) - 1

\* json decoder: one value starting at token i; inside an object; inside an array.
\* A decoded value is [kind, val]; the members of a dict and the elements of a
\* list are decoded values themselves (a Python object carries its type).
RECURSIVE ParseValue(_, _)
RECURSIVE ParseMembers(_, _, _)
RECURSIVE ParseElems(_, _, _)
ParseValue(toks, i) ==
    LET t == Tok(toks, i) IN
    CASE t.k = "str" -> [ok |-> TRUE, next |-> i + 1, kind |-> "str", val |-> t.s]
      [] t.k = "name" -> [ok |-> TRUE, next |-> i + 1, kind |-> "name", val |-> t.a]
      [] t.k = "num" -> [ok |-> TRUE, next |-> i + 1, kind |-> "num", val |-> NumOf(t.s)]
      [] t.k = "null" -> [ok |-> TRUE, next |-> i + 1, kind |-> "null", val |-> << >>]
      [] t.k = "{" -> ParseMembers(toks, i + 1, EmptyDict)
      [] t.k = "[" -> ParseElems(toks, i + 1, << >>)
      [] OTHER -> ParseFail

ParseMembers(toks, i, acc) ==
    LET t == Tok(toks, i) IN
    CASE t.k = "}" -> [ok |-> TRUE, next |-> i + 1, kind |-> "dict", val |-> acc]
      [] t.k = "key" ->
            LET v == ParseValue(toks, i + 1) IN
            IF v.ok
            THEN ParseMembers(toks, v.next, Put(acc, t.a, [kind |-> v.kind, val |-> v.val]))
            ELSE ParseFail
      [] OTHER -> ParseFail

ParseElems(toks, i, acc) ==
    LET t == Tok(toks, i) IN
    IF t.k = "]" THEN [ok |-> TRUE, next |-> i + 1, kind |-> "list", val |-> acc]
    ELSE LET v == ParseValue(toks, i) IN
         IF v.ok
         THEN ParseElems(toks, v.next, Append(acc, [kind |-> v.kind, val |-> v.val]))
         ELSE ParseFail

\* json.load(f) / json.loads(text): the value, or JSONDecodeError (also on data
\* after the value)
json_load(toks) ==
    LET v == ParseValue(toks, 1) IN
    IF v.ok /\ v.next = Len(toks) + 1
    THEN [err |-> "none", kind |-> v.kind, val |-> v.val]
    ELSE [err |-> "JSONDecodeError", kind |-> "none", val |-> << >>]

\* the plain Python value of a decoded value: dicts as functions, lists as sequences
RECURSIVE Plain(_)
Plain(j) ==
    CASE j.kind = "dict" -> [key \in DOMAIN j.val |-> Plain(j.val[key])]
      [] j.kind = "list" -> [i \in 1..Len(j.val) |-> Plain(j.val[i])]
      [] OTHER -> j.val

(***************************************************************************)
(* storage.py: JSONStorage.                                                *)
(***************************************************************************)
Cats == {"conversations", "documents", "generic", "crashreport", "reminders"}

NoFile == [exists |-> FALSE, data |-> << >>]

\* JSONStorage._file_for: one file per module name
file_for(fs, module_name) == fs[module_name]

\* JSONStorage.load
load(fs, module_name) ==
    LET p == file_for(fs, module_name) IN
    IF ~p.exists THEN [err |-> "none", kind |-> "list", val |-> << >>]
    ELSE LET j == json_load(p.data) IN
         [err |-> j.err, kind |-> j.kind, val |-> Plain(j)]

\* a save that writes the list to the file of every module
save_everywhere(fs, module_name, its) ==
    [c \in DOMAIN fs |-> [exists |-> TRUE, data |-> json_dump(its)]]

\* JSONStorage.save run to completion: open("w"), json.dump, close
save(fs, module_name, its) ==
    [fs EXCEPT ![module_name] = [exists |-> TRUE, data |-> json_dump(its)]]

(***************************************************************************)
(* The storage level on its own: a save as the file system sees it (the    *)
(* open truncates, the buffer is flushed as it fills, the close flushes    *)
(* the rest), a process that may be killed inside a save, and a reader.    *)
(***************************************************************************)
StoreCats == {"generic", "conversations"}

Chars(n) == <<Digits[n + 1]>>
RecA == [id |-> Chars(7), type |-> "generic", content |-> <<"h", "i">>,
         metadata |-> EmptyDict, created_at |-> 0]
RecB == [id |-> Chars(8), type |-> "conversations", content |-> <<"A", ":", "\n">>,
         metadata |-> Put(EmptyDict, "speaker", <<"A", "l">>), created_at |-> 1]
RecordPool == {RecA, RecB}
RecordLists == {<< >>, <<RecA>>, <<RecA, RecB>>, <<RecB, RecA>>}

Idle == [active |-> FALSE, cat |-> "generic", buf |-> << >>]

InitStore ==
    /\ files = [c \in Cats |-> NoFile]
    /\ wr = Idle
    /\ committed = [c \in Cats |-> << >>]
    /\ attempted = [c \in Cats |-> << >>]
    /\ torn = [c \in Cats |-> FALSE]
    /\ nsaved = [c \in Cats |-> 0]
    /\ nbegun = 0
    /\ items = << >>
    /\ opened = << >>
    /\ added = << >>
    /\ writers = << >>
    /\ lastWriter = << >>
    /\ nextId = 0
    /\ ret = [op |-> "none"]

ManagerVars == <<items, opened, added, writers, lastWriter, nextId>>

\* a save that opens the file for appending instead of truncating it
SaveOpenAppend(c, recs) ==
    /\ ~wr.active
    /\ nbegun < MaxSaves
    /\ nbegun' = nbegun + 1
    /\ files' = [files EXCEPT ![c] = [exists |-> TRUE, data |-> files[c].data]]
    /\ wr' = [active |-> TRUE, cat |-> c, buf |-> json_dump(recs)]
    /\ attempted' = [attempted EXCEPT ![c] = recs]
    /\ torn' = [torn EXCEPT ![c] = TRUE]
    /\ UNCHANGED <<committed, nsaved, ret>>
    /\ UNCHANGED ManagerVars

\* save, line 30: p.open("w") creates or truncates the file
SaveOpen(c, recs) ==
    /\ ~wr.active
    /\ nbegun < MaxSaves
    /\ nbegun' = nbegun + 1
    /\ files' = [files EXCEPT ![c] = [exists |-> TRUE, data |-> << >>]]
    /\ wr' = [active |-> TRUE, cat |-> c, buf |-> json_dump(recs)]
    /\ attempted' = [attempted EXCEPT ![c] = recs]
    /\ torn' = [torn EXCEPT ![c] = TRUE]
    /\ UNCHANGED <<committed, nsaved, ret>>
    /\ UNCHANGED ManagerVars

\* save, line 31: json.dump fills the buffer, which is written out when full
SaveFlush ==
    /\ wr.active
    /\ Len(wr.buf) > BufTokens
    /\ files' = [files EXCEPT ![wr.cat].data = @ \o SubSeq(wr.buf, 1, BufTokens)]
    /\ wr' = [wr EXCEPT !.buf = SubSeq(@, BufTokens + 1, Len(@))]
    /\ UNCHANGED <<committed, attempted, torn, nsaved, nbegun, ret>>
    /\ UNCHANGED ManagerVars

\* save, leaving the with block: the rest is flushed, the file closed, save returns
SaveClose ==
    /\ wr.active
    /\ Len(wr.buf) <= BufTokens
    /\ files' = [files EXCEPT ![wr.cat].data = @ \o wr.buf]
    /\ wr' = Idle
    /\ committed' = [committed EXCEPT ![wr.cat] = attempted[wr.cat]]
    /\ torn' = [torn EXCEPT ![wr.cat] = FALSE]
    /\ nsaved' = [nsaved EXCEPT ![wr.cat] = @ + 1]
    /\ UNCHANGED <<attempted, nbegun, ret>>
    /\ UNCHANGED ManagerVars

\* the writing process is killed inside save: the file stays as it is
Crash ==
    /\ wr.active
    /\ wr' = Idle
    /\ UNCHANGED <<files, committed, attempted, torn, nsaved, nbegun, ret>>
    /\ UNCHANGED ManagerVars

\* a reader calls load(c), whatever the writer is doing
Load(c) ==
    /\ ret' = [op |-> "load", cat |-> c,
               err |-> load(files, c).err, kind |-> load(files, c).kind,
               val |-> load(files, c).val,
               clean |-> ~torn[c], gen |-> nsaved[c]]
    /\ UNCHANGED <<files, wr, committed, attempted, torn, nsaved, nbegun>>
    /\ UNCHANGED ManagerVars

NextStore ==
    \/ \E c \in StoreCats, recs \in RecordLists : SaveOpen(c, recs)
    \/ SaveFlush
    \/ SaveClose
    \/ Crash
    \/ \E c \in StoreCats : Load(c)

SpecStore == InitStore /\ [][NextStore]_vars
(***************************************************************************)
(* base.py and modules.py: MemoryItem, GenericMemory and its two           *)
(* specializations.  An operation works on st = [its, fs, n, clock]: the   *)
(* calling manager's item lists, the storage directory, the ids handed out *)
(* so far and the readings time.time() will give, and returns the st it    *)
(* leaves behind.                                                          *)
(***************************************************************************)
Times == {0, 1}

\* MemoryItem(...) with __post_init__ filling created_at
MemoryItem(id, type, content, metadata, created_at) ==
    [id |-> id, type |-> type, content |-> content, metadata |-> metadata,
     created_at |-> created_at]

\* MemoryItem.to_dict: asdict
to_dict(item) == [f \in {FieldOrder[i] : i \in 1..Len(FieldOrder)} |-> item[f]]

\* an add that persists the list before appending the new item to it
add_save_first(st, name, content, metadata) ==
    LET item == MemoryItem(Chars(st.n), name, content, metadata, Head(st.clock))
        its2 == [st.its EXCEPT ![name] = Append(@, to_dict(item))]
    IN  [its |-> its2, fs |-> save(st.fs, name, st.its[name]),
         n |-> st.n + 1, clock |-> Tail(st.clock)]

\* an add that persists the new item alone
add_save_last(st, name, content, metadata) ==
    LET item == MemoryItem(Chars(st.n), name, content, metadata, Head(st.clock))
        its2 == [st.its EXCEPT ![name] = Append(@, to_dict(item))]
    IN  [its |-> its2, fs |-> save(st.fs, name, <<to_dict(item)>>),
         n |-> st.n + 1, clock |-> Tail(st.clock)]

\* an add that puts the new item in front of the list
add_front(st, name, content, metadata) ==
    LET item == MemoryItem(Chars(st.n), name, content, metadata, Head(st.clock))
        its2 == [st.its EXCEPT ![name] = <<to_dict(item)>> \o @]
    IN  [its |-> its2, fs |-> save(st.fs, name, its2[name]),
         n |-> st.n + 1, clock |-> Tail(st.clock)]

\* GenericMemory.add on the module called name
add(st, name, content, metadata) ==
    LET item == MemoryItem(Chars(st.n), name, content, metadata, Head(st.clock))
        its2 == [st.its EXCEPT ![name] = Append(@, to_dict(item))]
    IN  [its |-> its2, fs |-> save(st.fs, name, its2[name]),
         n |-> st.n + 1, clock |-> Tail(st.clock)]

\* an add_turn that keeps a speaker the caller's metadata already names
add_turn_keep(st, speaker, text, metadata) ==
    add(st, "conversations", text,
        IF "speaker" \in DOMAIN metadata THEN metadata ELSE Put(metadata, "speaker", speaker))

\* ConversationMemory.add_turn (the module is "conversations")
add_turn(st, speaker, text, metadata) ==
    add(st, "conversations", text, Put(metadata, "speaker", speaker))

\* DocumentMemory.add_document (the module is "documents")
add_document(st, title, text, metadata) ==
    add(st, "documents", text, Put(metadata, "title", title))

\* GenericMemory.__init__ for every module of MemoryManager.__init__
LoadAll(fs) == [c \in Cats |-> load(fs, c)]

(***************************************************************************)
(* Several managers opened on one storage directory.  Every call runs to   *)
(* completion before the next begins: no two operations overlap.           *)
(***************************************************************************)
Mgrs == {1, 2}

St(m, clock) == [its |-> items[m], fs |-> files, n |-> nextId, clock |-> clock]

Range(f) == {f[i] : i \in DOMAIN f}

\* the records st2 holds beyond those the manager held before the call
NewIn(m, st2, c) == SubSeq(st2.its[c], Len(items[m][c]) + 1, Len(st2.its[c]))

\* what a call of manager m that left st2 behind did to the state
Commit(m, st2) ==
    /\ items' = [items EXCEPT ![m] = st2.its]
    /\ files' = st2.fs
    /\ nextId' = st2.n
    /\ added' = [c \in Cats |-> added[c] \cup Range(NewIn(m, st2, c))]
    /\ writers' = [c \in Cats |-> IF NewIn(m, st2, c) # << >>
                                  THEN writers[c] \cup {m} ELSE writers[c]]
    /\ lastWriter' = [c \in Cats |-> IF NewIn(m, st2, c) # << >>
                                     THEN m ELSE lastWriter[c]]

StoreVars == <<wr, committed, attempted, torn, nsaved, nbegun>>

InitManagers ==
    /\ files = [c \in Cats |-> NoFile]
    /\ wr = Idle
    /\ committed = [c \in Cats |-> << >>]
    /\ attempted = [c \in Cats |-> << >>]
    /\ torn = [c \in Cats |-> FALSE]
    /\ nsaved = [c \in Cats |-> 0]
    /\ nbegun = 0
    /\ items = [m \in Mgrs |-> [c \in Cats |-> << >>]]
    /\ added = [c \in Cats |-> {}]
    /\ writers = [c \in Cats |-> {}]
    /\ lastWriter = [c \in Cats |-> 0]
    /\ nextId = 0
    /\ ret = [op |-> "none"]

InitWriters ==
    /\ InitManagers
    /\ opened = [m \in Mgrs |-> FALSE]

\* MemoryManager.__init__: every module loads its file
Construct(m) ==
    /\ ~opened[m]
    /\ LET l == LoadAll(files) IN
       IF \A c \in Cats : l[c].err = "none"
       THEN /\ opened' = [opened EXCEPT ![m] = TRUE]
            /\ items' = [items EXCEPT ![m] = [c \in Cats |-> l[c].val]]
            /\ ret' = [op |-> "init", mgr |-> m, err |-> "none"]
       ELSE /\ ret' = [op |-> "init", mgr |-> m, err |-> "JSONDecodeError"]
            /\ UNCHANGED <<opened, items>>
    /\ UNCHANGED <<files, added, writers, lastWriter, nextId>>
    /\ UNCHANGED StoreVars

WCats == {"generic", "crashreport"}
WText == <<"h", "i">>
WMetas == {EmptyDict, Put(EmptyDict, "source", <<"w">>)}
WSpeaker == <<"A", "l">>
WTitle == <<"T">>
\* caller metadata that already names a speaker and a title
WTagged ==
    Put(Put(Put(EmptyDict, "source", <<"w">>), "speaker", <<"B", "o">>), "title", <<"O", "l", "d">>)
WOwnMetas == {EmptyDict, WTagged}

\* a call of modules[c].add(content, metadata)
Add(m, c, content, metadata, now) ==
    /\ opened[m]
    /\ nextId < MaxAdds
    /\ \E st2 \in {add(St(m, <<now>>), c, content, metadata)} : Commit(m, st2)
    /\ ret' = [op |-> "add", mgr |-> m, cat |-> c, arg |-> << >>, md |-> metadata]
    /\ UNCHANGED opened
    /\ UNCHANGED StoreVars

\* a call of modules["conversations"].add_turn(speaker, text, metadata)
AddTurn(m, speaker, text, metadata, now) ==
    /\ opened[m]
    /\ nextId < MaxAdds
    /\ \E st2 \in {add_turn(St(m, <<now>>), speaker, text, metadata)} : Commit(m, st2)
    /\ ret' = [op |-> "add_turn", mgr |-> m, cat |-> "conversations",
               arg |-> speaker, md |-> metadata]
    /\ UNCHANGED opened
    /\ UNCHANGED StoreVars

\* a call of modules["documents"].add_document(title, text, metadata)
AddDocument(m, title, text, metadata, now) ==
    /\ opened[m]
    /\ nextId < MaxAdds
    /\ \E st2 \in {add_document(St(m, <<now>>), title, text, metadata)} : Commit(m, st2)
    /\ ret' = [op |-> "add_document", mgr |-> m, cat |-> "documents",
               arg |-> title, md |-> metadata]
    /\ UNCHANGED opened
    /\ UNCHANGED StoreVars

NextWriters ==
    \/ \E m \in Mgrs : Construct(m)
    \/ \E m \in Mgrs, c \in WCats, md \in WMetas, now \in Times : Add(m, c, WText, md, now)
    \/ \E m \in Mgrs, md \in WOwnMetas, now \in Times : AddTurn(m, WSpeaker, WText, md, now)
    \/ \E m \in Mgrs, md \in WOwnMetas, now \in Times : AddDocument(m, WTitle, WText, md, now)

SpecWriters == InitWriters /\ [][NextWriters]_vars

(***************************************************************************)
(* manager.py: ModelAdapter.categorize, the keyword classifier.            *)
(***************************************************************************)
\* rules: the dict's keys in insertion order, and each key's keywords
RuleTags == <<"conversations", "documents", "crashreport", "reminders">>
RuleKws ==
    << << <<"s", "a", "i", "d">>,
          <<"a", "s", "k", "e", "d">>,
          <<"r", "e", "p", "l", "y">>,
          <<"c", "o", "n", "v", "e", "r", "s", "a", "t", "i", "o", "n">>,
          <<"c", "h", "a", "t">> >>,
       << <<"d", "o", "c", "u", "m", "e", "n", "t">>,
          <<"r", "e", "p", "o", "r", "t">>,
          <<"a", "r", "t", "i", "c", "l", "e">>,
          <<"p", "a", "p", "e", "r">>,
          <<"n", "o", "t", "e", "s">> >>,
       << <<"e", "r", "r", "o", "r">>,
          <<"t", "r", "a", "c", "e", "b", "a", "c", "k">>,
          <<"c", "r", "a", "s", "h">>,
          <<"e", "x", "c", "e", "p", "t", "i", "o", "n">> >>,
       << <<"r", "e", "m", "i", "n", "d">>,
          <<"r", "e", "m", "i", "n", "d", "e", "r">>,
          <<"r", "e", "m", "e", "m", "b", "e", "r", " ", "t", "o">> >> >>

\* the inner loop: stops at the first keyword found in text_l (break)
RECURSIVE AnyKw(_, _, _)
AnyKw(kws, j, text_l) ==
    IF j > Len(kws) THEN FALSE
    ELSE IF Contains(kws[j], text_l) THEN TRUE
    ELSE AnyKw(kws, j + 1, text_l)

\* the outer loop over rules.items(), from rule i on
RECURSIVE TagsFrom(_, _, _)
TagsFrom(i, text_l, tags) ==
    IF i > Len(RuleTags) THEN tags
    ELSE TagsFrom(i + 1, text_l,
                  IF AnyKw(RuleKws[i], 1, text_l) THEN Append(tags, RuleTags[i]) ELSE tags)

\* a classifier that matches the keywords against the text as typed
categorize_cased(text) ==
    LET tags == TagsFrom(1, text, << >>) IN
    IF tags = << >> THEN <<"generic">> ELSE tags

\* ModelAdapter.categorize
categorize(text) ==
    LET tags == TagsFrom(1, lower(text), << >>) IN
    IF tags = << >> THEN <<"generic">> ELSE tags

(***************************************************************************)
(* manager.py: MemoryManager.ingest_chat_log.                              *)
(***************************************************************************)
User == <<"u", "s", "e", "r">>
Ingested == <<"i", "n", "g", "e", "s", "t", "e", "d">>
Colon == <<":">>

ZeroCounts == [c \in Cats |-> 0]

\* self.modules.get(tag) or self.modules.get("generic"): the module's name
ModFor(tag) == IF tag \in Cats THEN tag ELSE "generic"

\* [ln.strip() for ln in chat_text.splitlines() if ln.strip()]
LinesOf(chat_text) ==
    LET raw == splitlines(chat_text) IN
    SelectSeq([i \in 1..Len(raw) |-> strip(raw[i])], LAMBDA ln : ln # << >>)

\* the body of `for tag in tags` for one tag: the module call it makes
RouteTag(st, ln, tag) ==
    CASE tag = "conversations" ->
            IF Contains(Colon, ln)
            THEN LET parts == split1(ln) IN add_turn(st, strip(parts[1]), strip(parts[2]), EmptyDict)
            ELSE add_turn(st, User, ln, EmptyDict)
      [] tag = "documents" -> add_document(st, Ingested, ln, EmptyDict)
      [] OTHER -> add(st, ModFor(tag), ln, EmptyDict)

\* an ingestion that counts a line once, under its first tag
CountTagOnce(counts, tags, tag) ==
    IF tag = Head(tags) /\ Len(tags) > 1 THEN counts
    ELSE [counts EXCEPT ![ModFor(tag)] = @ + 1]

\* counts[mod.name] = counts.get(mod.name, 0) + 1
CountTag(counts, tags, tag) == [counts EXCEPT ![ModFor(tag)] = @ + 1]

\* `for tag in tags`, from the k-th tag of the line on
RECURSIVE IngestTags(_, _, _, _)
IngestTags(acc, ln, tags, k) ==
    IF k > Len(tags) THEN acc
    ELSE IngestTags([st |-> RouteTag(acc.st, ln, tags[k]),
                     counts |-> CountTag(acc.counts, tags, tags[k])],
                    ln, tags, k + 1)

\* `for ln in lines`
RECURSIVE IngestLines(_, _)
IngestLines(acc, lines) ==
    IF lines = << >> THEN acc
    ELSE IngestLines(IngestTags(acc, Head(lines), categorize(Head(lines)), 1), Tail(lines))

\* MemoryManager.ingest_chat_log: the state it leaves and the counts it returns
ingest_chat_log(st, chat_text) ==
    IngestLines([st |-> st, counts |-> ZeroCounts], LinesOf(chat_text))

\* the records a call of ingest_chat_log creates (one time.time() reading each)
RECURSIVE SumLen(_)
SumLen(ss) == IF ss = << >> THEN 0 ELSE Len(Head(ss)) + SumLen(Tail(ss))
NumRecords(chat_text) ==
    LET lines == LinesOf(chat_text) IN
    SumLen([i \in 1..Len(lines) |-> categorize(lines[i])])

(***************************************************************************)
(* One manager on a fresh storage directory: ingestion.                    *)
(***************************************************************************)
ChatTexts ==
    { << >>,
      <<" ", "\n", "\n">>,
      <<"A", "l", ":", " ", "I", " ", "s", "a", "i", "d", ":", " ", "h", "i", "\n", "\n", " ", " ", "t", "h", "e", " ", "R", "e", "p", "o", "r", "t", " ", "\r", "\n">>,
      <<"c", "h", "a", "t", " ", "n", "o", "t", "e", "s">>,
      <<"x">>,
      <<"E", "R", "R", "O", "R", ":", " ", "r", "e", "m", "i", "n", "d", "e", "r">> }

Clocks(n) == [1..n -> Times]

Init ==
    /\ InitManagers
    /\ opened = [m \in Mgrs |-> m = 1]

IngestChatLog(m, chat_text, clock, bound) ==
    /\ opened[m]
    /\ nextId + Len(clock) <= bound
    /\ \E r \in {ingest_chat_log(St(m, clock), chat_text)} :
       /\ Commit(m, r.st)
       /\ ret' = [op |-> "ingest_chat_log", mgr |-> m, text |-> chat_text,
                  err |-> "none", counts |-> r.counts,
                  before |-> [c \in Cats |-> Len(items[m][c])]]
    /\ UNCHANGED opened
    /\ UNCHANGED StoreVars

(***************************************************************************)
(* manager.py: MemoryManager.ingest_qwen_json.  Decoded values keep their  *)
(* kind, so that .get on a value that is no dict raises as Python does.    *)
(***************************************************************************)
Null == [kind |-> "null", val |-> << >>]
NameVal(a) == [kind |-> "name", val |-> a]
StrVal(chars) == [kind |-> "str", val |-> chars]
DictVal(d) == [kind |-> "dict", val |-> d]
ListVal(l) == [kind |-> "list", val |-> l]

\* d.get(key) on a dict
Get(d, key) == IF key \in DOMAIN d.val THEN d.val[key] ELSE Null

\* bool(v)
Truthy(j) ==
    CASE j.kind = "null" -> FALSE
      [] j.kind = "str" -> j.val # << >>
      [] j.kind = "name" -> j.val # ""
      [] j.kind = "num" -> j.val # 0
      [] j.kind = "dict" -> DOMAIN j.val # {}
      [] j.kind = "list" -> j.val # << >>
      [] OTHER -> FALSE

\* a or b
OrElse(a, b) == IF Truthy(a) THEN a ELSE b

Raise(acc, e) == [acc EXCEPT !.err = e]

\* a loop body that files an entry of unknown type under crashreport
QwenEntry_crashreport(acc, it) ==
    IF it.kind # "dict" THEN Raise(acc, "AttributeError")
    ELSE
    LET typ == OrElse(Get(it, "type"), OrElse(Get(it, "mem_type"), NameVal("generic")))
        content == OrElse(Get(it, "content"), OrElse(Get(it, "summary"), StrVal(<< >>)))
        metadata == OrElse(Get(it, "metadata"), DictVal(EmptyDict))
        known == typ.kind = "name" /\ typ.val \in Cats
        modname == IF known THEN typ.val ELSE "crashreport"
        md == Plain(metadata)
    IN
    IF typ.kind \in {"list", "dict"} THEN Raise(acc, "TypeError")
    ELSE IF known /\ typ.val \in {"conversations", "documents"} /\ metadata.kind # "dict"
    THEN Raise(acc, "AttributeError")
    ELSE
    [st |-> CASE known /\ typ.val = "conversations" ->
                    add_turn(acc.st,
                             IF "speaker" \in DOMAIN md THEN md.speaker ELSE User,
                             Plain(content), md)
              [] known /\ typ.val = "documents" ->
                    add_document(acc.st,
                                 IF "title" \in DOMAIN md THEN md.title ELSE Ingested,
                                 Plain(content), md)
              [] OTHER -> add(acc.st, modname, Plain(content), md),
     counts |-> [acc.counts EXCEPT ![modname] = @ + 1],
     err |-> "none"]

\* the body of `for it in items` for one entry
QwenEntry(acc, it) ==
    IF it.kind # "dict" THEN Raise(acc, "AttributeError")
    ELSE
    LET typ == OrElse(Get(it, "type"), OrElse(Get(it, "mem_type"), NameVal("generic")))
        content == OrElse(Get(it, "content"), OrElse(Get(it, "summary"), StrVal(<< >>)))
        metadata == OrElse(Get(it, "metadata"), DictVal(EmptyDict))
        known == typ.kind = "name" /\ typ.val \in Cats
        modname == IF known THEN typ.val ELSE "generic"
        md == Plain(metadata)
    IN
    IF typ.kind \in {"list", "dict"} THEN Raise(acc, "TypeError")
    ELSE IF known /\ typ.val \in {"conversations", "documents"} /\ metadata.kind # "dict"
    THEN Raise(acc, "AttributeError")
    ELSE
    [st |-> CASE known /\ typ.val = "conversations" ->
                    add_turn(acc.st,
                             IF "speaker" \in DOMAIN md THEN md.speaker ELSE User,
                             Plain(content), md)
              [] known /\ typ.val = "documents" ->
                    add_document(acc.st,
                                 IF "title" \in DOMAIN md THEN md.title ELSE Ingested,
                                 Plain(content), md)
              [] OTHER -> add(acc.st, modname, Plain(content), md),
     counts |-> [acc.counts EXCEPT ![modname] = @ + 1],
     err |-> "none"]

\* `for it in items`: stops at the first entry that raises
RECURSIVE QwenItems(_, _)
QwenItems(acc, entries) ==
    IF entries = << >> \/ acc.err # "none" THEN acc
    ELSE QwenItems(QwenEntry(acc, Head(entries)), Tail(entries))

\* an ingestion that takes text it cannot decode for an empty result
ingest_qwen_json_lenient(st, json_text) ==
    LET parsed == json_load(json_text)
        start == [st |-> st, counts |-> ZeroCounts, err |-> "none"]
    IN
    IF parsed.err # "none" \/ parsed.kind # "dict" THEN start
    ELSE LET its == OrElse(Get(parsed, "items"), OrElse(Get(parsed, "results"), ListVal(<< >>)))
         IN  IF its.kind = "list" THEN QwenItems(start, its.val) ELSE start

\* MemoryManager.ingest_qwen_json: the state it leaves, the counts it returns
\* and the exception it raises, if any
ingest_qwen_json(st, json_text) ==
    LET parsed == json_load(json_text)
        start == [st |-> st, counts |-> ZeroCounts, err |-> "none"]
    IN
    IF parsed.err # "none" THEN Raise(start, "ValueError")
    ELSE IF parsed.kind # "dict" THEN Raise(start, "AttributeError")
    ELSE LET its == OrElse(Get(parsed, "items"), OrElse(Get(parsed, "results"), ListVal(<< >>)))
         IN  CASE its.kind = "list" -> QwenItems(start, its.val)
               [] its.kind = "num" -> Raise(start, "TypeError")
               [] OTHER -> Raise(start, "AttributeError")

\* the entries of a text that decodes to a dict with a list: at most this many records
QwenEntries(json_text) ==
    LET parsed == json_load(json_text) IN
    IF parsed.err # "none" \/ parsed.kind # "dict" THEN 0
    ELSE LET its == OrElse(Get(parsed, "items"), OrElse(Get(parsed, "results"), ListVal(<< >>)))
         IN  IF its.kind = "list" THEN Len(its.val) ELSE 0

Obj(members) == <<Punct("{")>> \o members \o <<Punct("}")>>
Arr(elems) == <<Punct("[")>> \o elems \o <<Punct("]")>>
Member(key, value) == <<KeyTok(key)>> \o value

\* texts json.loads rejects: "not json", "", a cut-off object, data after the value
InvalidTexts ==
    { <<Punct("word"), Punct("word")>>,
      << >>,
      <<Punct("{"), KeyTok("items"), Punct("[")>>,
      Obj(<< >>) \o <<Punct("}")>> }

\* texts json.loads accepts
ValidTexts ==
    { Obj(<< >>),
      Arr(<< >>),
      Obj(Member("items", Arr(
          Obj(Member("type", <<NameTok("documents")>>)
              \o Member("content", <<StrTok(<<"s", "p", "e", "c">>)>>)
              \o Member("metadata", Obj(Member("title", <<StrTok(<<"S", "p", "e", "c">>)>>))))))),
      Obj(Member("results", Arr(
          Obj(Member("mem_type", <<NameTok("bogus")>>)
              \o Member("summary", <<StrTok(<<"h", "i">>)>>))
          \o Obj(Member("type", <<NameTok("conversations")>>)
              \o Member("content", <<StrTok(<<"y", "o">>)>>))))),
      Obj(Member("items", Arr(
          Obj(Member("content", <<StrTok(<<"x">>)>>))
          \o <<StrTok(<<"o", "o", "p", "s">>)>>))),
      Obj(Member("items", Arr(
          Obj(Member("type", <<NameTok("bogus")>>)
              \o Member("mem_type", <<NameTok("documents")>>)
              \o Member("content", <<StrTok(<<"x">>)>>))))) }

QwenTexts == InvalidTexts \cup ValidTexts

IngestQwenJson(m, json_text, clock) ==
    /\ opened[m]
    /\ nextId + Len(clock) <= MaxItems
    /\ \E r \in {ingest_qwen_json(St(m, clock), json_text)} :
       /\ Commit(m, r.st)
       /\ ret' = [op |-> "ingest_qwen_json", mgr |-> m, text |-> json_text,
                  err |-> r.err, counts |-> r.counts,
                  before |-> [c \in Cats |-> Len(items[m][c])]]
    /\ UNCHANGED opened
    /\ UNCHANGED StoreVars

\* each input text with the number of clock readings a call on it can take
ChatInputs == {[text |-> t, n |-> NumRecords(t)] : t \in ChatTexts}
QwenInputs == {[text |-> t, n |-> QwenEntries(t)] : t \in QwenTexts}

Next ==
    \/ \E inp \in ChatInputs :
          \E clock \in Clocks(inp.n) : IngestChatLog(1, inp.text, clock, MaxItems)
    \/ \E inp \in QwenInputs :
          \E clock \in Clocks(inp.n) : IngestQwenJson(1, inp.text, clock)

Spec == Init /\ [][Next]_vars

(***************************************************************************)
(* modules.py: GenericMemory.query; manager.py: MemoryManager.query and    *)
(* MemoryManager.find_relevant.                                            *)
(***************************************************************************)
Min(a, b) == IF a <= b THEN a ELSE b
Max(a, b) == IF a >= b THEN a ELSE b

\* s[:n]
Slice(s, n) ==
    IF n >= 0 THEN SubSeq(s, 1, Min(n, Len(s))) ELSE SubSeq(s, 1, Max(Len(s) + n, 0))

\* a query that keeps the most recent matches
query_recent(its, q, limit) ==
    LET ql == lower(q)
        results == SelectSeq(its, LAMBDA it : Contains(ql, lower(it.content)))
    IN  SubSeq(results, Max(Len(results) - Max(limit, 0), 0) + 1, Len(results))

\* GenericMemory.query on the items of one module
query(its, q, limit) ==
    LET ql == lower(q)
        results == SelectSeq(its, LAMBDA it : Contains(ql, lower(it.content)))
    IN  Slice(results, limit)

\* a manager query that answers for an unknown category from the generic module
manager_query_generic(its, mem_type, q, limit) ==
    query(its[IF mem_type \in Cats THEN mem_type ELSE "generic"], q, limit)

\* MemoryManager.query
manager_query(its, mem_type, q, limit) ==
    IF mem_type \notin Cats THEN << >> ELSE query(its[mem_type], q, limit)

\* list(self.modules.keys())
ModuleOrder == <<"conversations", "documents", "generic", "crashreport", "reminders">>

\* sorted(results, key=created_at, reverse=True): stable, so an item goes
\* behind the items whose key is greater than or equal to its own
RECURSIVE InsertDesc(_, _)
InsertDesc(s, x) ==
    IF s = << >> THEN <<x>>
    ELSE IF Head(s).created_at >= x.created_at THEN <<Head(s)>> \o InsertDesc(Tail(s), x)
    ELSE <<x>> \o s

RECURSIVE SortedDesc(_, _)
SortedDesc(done, rest) ==
    IF rest = << >> THEN done ELSE SortedDesc(InsertDesc(done, Head(rest)), Tail(rest))

\* an ascending sort read backwards: items with equal keys change places
RECURSIVE InsertBefore(_, _)
InsertBefore(s, x) ==
    IF s = << >> THEN <<x>>
    ELSE IF Head(s).created_at > x.created_at THEN <<Head(s)>> \o InsertBefore(Tail(s), x)
    ELSE <<x>> \o s

RECURSIVE SortedReversed(_, _)
SortedReversed(done, rest) ==
    IF rest = << >> THEN done ELSE SortedReversed(InsertBefore(done, Head(rest)), Tail(rest))

\* the loop `for mt in mem_types`: results.extend(mod.query(...)) for known modules
RECURSIVE Extend(_, _, _, _, _)
Extend(results, its, q, mem_types, limit) ==
    IF mem_types = << >> THEN results
    ELSE Extend(IF Head(mem_types) \in Cats
                THEN results \o query(its[Head(mem_types)], q, limit) ELSE results,
                its, q, Tail(mem_types), limit)

\* a find_relevant whose ranking is not stable
find_relevant_unstable(its, q, mem_types, limit) ==
    LET mts == IF mem_types = << >> THEN ModuleOrder ELSE mem_types
        results == Extend(<< >>, its, q, mts, limit)
    IN  Slice(SortedReversed(<< >>, results), limit)

\* MemoryManager.find_relevant (mem_types << >> stands for None and for [])
find_relevant(its, q, mem_types, limit) ==
    LET mts == IF mem_types = << >> THEN ModuleOrder ELSE mem_types
        results == Extend(<< >>, its, q, mts, limit)
    IN  Slice(SortedDesc(<< >>, results), limit)

(***************************************************************************)
(* One manager: a few ingested records, and queries over them.             *)
(***************************************************************************)
QueryTexts ==
    { <<"h", "i", "\r", "H", "I">>,
      <<"x">>,
      <<"c", "h", "a", "t", " ", "h", "i">> }
QueryInputs == {[text |-> t, n |-> NumRecords(t)] : t \in QueryTexts}
QueryStrings == {<<"H", "i">>, << >>, <<"x">>}
Limits == {-1, 0, 1, 2}
QueryCats == {"generic", "conversations", "nosuch"}
CatLists ==
    {<< >>, <<"generic", "conversations">>, <<"documents", "nosuch", "generic">>, <<"nosuch">>}

Query(m, mem_type, q, limit) ==
    /\ opened[m]
    /\ ret' = [op |-> "query", mgr |-> m, cat |-> mem_type, q |-> q, limit |-> limit,
               res |-> manager_query(items[m], mem_type, q, limit)]
    /\ UNCHANGED <<files, items, opened, added, writers, lastWriter, nextId>>
    /\ UNCHANGED StoreVars

FindRelevant(m, q, mem_types, limit) ==
    /\ opened[m]
    /\ ret' = [op |-> "find_relevant", mgr |-> m, q |-> q, cats |-> mem_types,
               limit |-> limit, res |-> find_relevant(items[m], q, mem_types, limit)]
    /\ UNCHANGED <<files, items, opened, added, writers, lastWriter, nextId>>
    /\ UNCHANGED StoreVars

NextQuery ==
    \/ \E inp \in QueryInputs :
          \E clock \in Clocks(inp.n) : IngestChatLog(1, inp.text, clock, MaxQueryItems)
    \/ \E c \in QueryCats, q \in QueryStrings, limit \in Limits : Query(1, c, q, limit)
    \/ \E q \in QueryStrings, cats \in CatLists, limit \in Limits :
          FindRelevant(1, q, cats, limit)

SpecQuery == Init /\ [][NextQuery]_vars

(***************************************************************************)
(* The classifier on its own.                                              *)
(***************************************************************************)
Frags ==
    { << >>,
      <<"s", "a", "i", "d">>,
      <<"s", "a", "i">>,
      <<"d">>,
      <<"C", "h", "a", "t">>,
      <<"r", "e", "p", "o", "r", "t">>,
      <<"N", "O", "T", "E", "S">>,
      <<"E", "r", "r", "o", "r">>,
      <<"c", "r", "a", "s", "h">>,
      <<"r", "e", "m", "i", "n", "d">>,
      <<"e", "r">>,
      <<"r", "e", "m", "e", "m", "b", "e", "r">>,
      <<" ", "t", "o">>,
      <<":">>,
      <<"x">> }
CatTexts == {f \o g : f \in Frags, g \in Frags}

Categorize(text) ==
    /\ ret' = [op |-> "categorize", text |-> text, tags |-> categorize(text)]
    /\ UNCHANGED <<files, items, opened, added, writers, lastWriter, nextId>>
    /\ UNCHANGED StoreVars

NextCat == \E text \in CatTexts : Categorize(text)

SpecCat == Init /\ [][NextCat]_vars

\* C2: a reader that loads a category at any point, also inside a save or after
\* a save was interrupted, gets the complete previous list or the complete new
\* list and no error.
C2_AtomicSave ==
    \A c \in Cats :
        LET r == load(files, c) IN
        r.err = "none" /\ r.val \in {committed[c], attempted[c]}

\* C4: whenever the last save of a category has returned, load returns exactly
\* the list that save was given, field for field and in the same order, and
\* nothing of an earlier save.
C4_RoundTrip ==
    \A c \in Cats :
        ~torn[c] => load(files, c) = [err |-> "none", kind |-> "list", val |-> committed[c]]

\* a load after a second completed save of the category returned two different records
C4_Witness ==
    /\ ret.op = "load"
    /\ ret.clean
    /\ ret.gen >= 2
    /\ ret.err = "none"
    /\ Len(ret.val) = 2
    /\ ret.val[1] # ret.val[2]
    /\ ret.val[2].metadata # EmptyDict
\* C1: whenever a call of add, add_turn or add_document made through a Module
\* has returned, loading the category's file gives a list equal, element by
\* element and in order, to that Module's in-memory items (the Module whose
\* call returned last is the one the file mirrors).
C1_FileMirrorsItems ==
    \A c \in Cats :
        lastWriter[c] # 0 =>
            load(files, c) = [err |-> "none", kind |-> "list", val |-> items[lastWriter[c]][c]]

\* a second add_turn through the same Module has returned
C1_Witness ==
    /\ ret.op = "add_turn"
    /\ lastWriter["conversations"] = ret.mgr
    /\ Len(items[ret.mgr]["conversations"]) >= 2
    /\ load(files, "conversations").val[2].metadata.speaker = WSpeaker

\* C3: if no two mutating operations on a category overlap, then after all adds
\* have returned the category file holds every record that any writer added.
C3_NoLostUpdate ==
    \A c \in Cats : added[c] \subseteq Range(load(files, c).val)

\* C3 as amended: when the writers of a category all go through one Manager
\* (one Module instance) and no two operations overlap, the category file
\* holds every record that was added.
C3_SharedManager ==
    \A c \in Cats :
        Cardinality(writers[c]) <= 1 => added[c] \subseteq Range(load(files, c).val)

\* two records added to one category through one manager while a second manager is open
C3_Witness ==
    \E c \in Cats :
        /\ Cardinality(writers[c]) = 1
        /\ Cardinality(added[c]) >= 2
        /\ \A m \in Mgrs : opened[m]
\* C8: categorize returns a non-empty sequence of distinct category names; a
\* keyword-table category is in it exactly when one of its keywords occurs in
\* the lower-cased text, in keyword-table order; it is <<"generic">> exactly
\* when no keyword occurs, and "generic" never comes with another category.
KeywordHit(i, text) ==
    \E j \in 1..Len(RuleKws[i]) : Contains(RuleKws[i][j], lower(text))
RuleIndex(tag) == CHOOSE i \in 1..Len(RuleTags) : RuleTags[i] = tag
C8_Categorize ==
    ret.op = "categorize" =>
        LET tags == ret.tags IN
        /\ Len(tags) >= 1
        /\ \A a, b \in 1..Len(tags) : a # b => tags[a] # tags[b]
        /\ \A i \in 1..Len(RuleTags) : (RuleTags[i] \in Range(tags)) <=> KeywordHit(i, ret.text)
        /\ (tags = <<"generic">>) <=> (\A i \in 1..Len(RuleTags) : ~KeywordHit(i, ret.text))
        /\ "generic" \in Range(tags) => Len(tags) = 1
        /\ Range(tags) \subseteq Cats
        /\ \A a, b \in 1..Len(tags) :
              (a < b /\ "generic" \notin Range(tags)) => RuleIndex(tags[a]) < RuleIndex(tags[b])

\* a text typed with capitals that matches two categories, in table order
C8_Witness ==
    /\ ret.op = "categorize"
    /\ ret.text # lower(ret.text)
    /\ ret.tags = <<"conversations", "documents">>
\* the positions of the items of its whose content contains q, case-insensitively
Matches(its, q) == {i \in 1..Len(its) : Contains(lower(q), lower(its[i].content))}
\* the n-th smallest member of a set of positions
Nth(S, n) == CHOOSE i \in S : Cardinality({j \in S : j < i}) = n - 1
IsFirstMatches(res, its, q, limit) ==
    /\ Len(res) = Min(limit, Cardinality(Matches(its, q)))
    /\ \A n \in 1..Len(res) : res[n] = its[Nth(Matches(its, q), n)]

\* C6: for any query string and any limit, Module.query returns at most limit
\* items, each containing the query string case-insensitively, and the result
\* is exactly the first limit matching records in insertion order.
C6_QueryAnyLimit ==
    (ret.op = "query" /\ ret.cat \in Cats) =>
        /\ Len(ret.res) <= ret.limit
        /\ \A n \in 1..Len(ret.res) : Contains(lower(ret.q), lower(ret.res[n].content))
        /\ IsFirstMatches(ret.res, items[ret.mgr][ret.cat], ret.q, ret.limit)

\* C6 as amended: the same for any query string and any limit >= 0.
C6_Query ==
    (ret.op = "query" /\ ret.cat \in Cats /\ ret.limit >= 0) =>
        /\ Len(ret.res) <= ret.limit
        /\ \A n \in 1..Len(ret.res) : Contains(lower(ret.q), lower(ret.res[n].content))
        /\ IsFirstMatches(ret.res, items[ret.mgr][ret.cat], ret.q, ret.limit)

\* a query typed in another case than the two records it matches, cut to the first
C6_Witness ==
    /\ ret.op = "query"
    /\ ret.cat = "generic"
    /\ ret.limit = 1
    /\ ret.q # lower(ret.q)
    /\ Cardinality(Matches(items[ret.mgr]["generic"], ret.q)) = 2
    /\ ret.res = <<items[ret.mgr]["generic"][1]>>

\* the hits of the known categories of a list, module by module, in list order
RECURSIVE Hits(_, _, _, _)
Hits(its, q, cats, limit) ==
    IF cats = << >> THEN << >>
    ELSE (IF Head(cats) \in Cats THEN query(its[Head(cats)], q, limit) ELSE << >>)
         \o Hits(its, q, Tail(cats), limit)
\* where a stable sort by created_at descending puts the i-th item of L
Rank(L, i) ==
    1 + Cardinality({j \in 1..Len(L) : L[j].created_at > L[i].created_at})
      + Cardinality({j \in 1..(i - 1) : L[j].created_at = L[i].created_at})
IsRanked(res, L, limit) ==
    /\ Len(res) = Min(limit, Len(L))
    /\ \A i \in 1..Len(L) : Rank(L, i) <= Len(res) => res[Rank(L, i)] = L[i]
IsDescending(res) ==
    \A a, b \in 1..Len(res) : a < b => res[a].created_at >= res[b].created_at

\* C7: for any query text, category list and limit, find_relevant returns at
\* most limit items sorted by created_at descending, equal to the first limit
\* of the stable sort of the requested categories' query results.
C7_FindRelevantAnyInput ==
    ret.op = "find_relevant" =>
        /\ Len(ret.res) <= ret.limit
        /\ IsDescending(ret.res)
        /\ IsRanked(ret.res, Hits(items[ret.mgr], ret.q, ret.cats, ret.limit), ret.limit)

\* C7 as amended: the same for any limit >= 0, an empty category list standing
\* for every known category in the manager's order.
C7_FindRelevant ==
    (ret.op = "find_relevant" /\ ret.limit >= 0) =>
        LET cats == IF ret.cats = << >> THEN ModuleOrder ELSE ret.cats IN
        /\ Len(ret.res) <= ret.limit
        /\ IsDescending(ret.res)
        /\ IsRanked(ret.res, Hits(items[ret.mgr], ret.q, cats, ret.limit), ret.limit)

\* two hits from two categories with the same created_at, kept in request order
C7_Witness ==
    /\ ret.op = "find_relevant"
    /\ ret.cats = <<"generic", "conversations">>
    /\ ret.limit = 2
    /\ Len(ret.res) = 2
    /\ ret.res[1].created_at = ret.res[2].created_at
    /\ ret.res[1].type = "generic"
    /\ ret.res[2].type = "conversations"
\* the sum of a call's counts over the known categories
RECURSIVE SumOver(_, _)
SumOver(counts, cats) ==
    IF cats = << >> THEN 0 ELSE counts[Head(cats)] + SumOver(counts, Tail(cats))
\* the number of categories the classifier gives, summed over the lines
RECURSIVE TagTotal(_)
TagTotal(lines) ==
    IF lines = << >> THEN 0 ELSE Len(categorize(Head(lines))) + TagTotal(Tail(lines))
\* the records the last call appended to category c of its manager
Appended(c) == SubSeq(items[ret.mgr][c], ret.before[c] + 1, Len(items[ret.mgr][c]))

\* C5: the counts ingest_chat_log returns sum to the number of categories the
\* classifier gives, summed over the non-empty trimmed lines of the text, and
\* each category's count is the number of records the call appended to it.
C5_IngestCounts ==
    ret.op = "ingest_chat_log" =>
        /\ DOMAIN ret.counts = Cats
        /\ SumOver(ret.counts, ModuleOrder) = TagTotal(LinesOf(ret.text))
        /\ \A c \in Cats : ret.counts[c] = Len(Appended(c))

\* one line in two categories, counted in both, after an earlier ingestion
C5_Witness ==
    /\ ret.op = "ingest_chat_log"
    /\ Len(LinesOf(ret.text)) = 1
    /\ ret.counts["conversations"] = 1
    /\ ret.counts["documents"] = 1
    /\ ret.before["documents"] >= 1

\* the lines of the text that the classifier routes to category c, in order
RoutedTo(c, text) == SelectSeq(LinesOf(text), LAMBDA ln : c \in Range(categorize(ln)))
HasColon(ln) == \E i \in 1..Len(ln) : ln[i] = ":"
FirstColon(ln) == CHOOSE i \in 1..Len(ln) : ln[i] = ":" /\ \A j \in 1..(i - 1) : ln[j] # ":"
\* the record expected for a line routed to category c
Shaped(c, ln, rec) ==
    /\ rec.type = c
    /\ CASE c = "conversations" ->
              IF HasColon(ln)
              THEN /\ "speaker" \in DOMAIN rec.metadata
                   /\ rec.metadata.speaker = strip(SubSeq(ln, 1, FirstColon(ln) - 1))
                   /\ rec.content = strip(SubSeq(ln, FirstColon(ln) + 1, Len(ln)))
              ELSE /\ "speaker" \in DOMAIN rec.metadata
                   /\ rec.metadata.speaker = User
                   /\ rec.content = ln
         [] c = "documents" ->
              /\ "title" \in DOMAIN rec.metadata
              /\ rec.metadata.title = Ingested
              /\ rec.content = ln
         [] OTHER ->
              /\ rec.metadata = EmptyDict
              /\ rec.content = ln

\* C9: ingest_chat_log stores, for every line and every category the line is
\* routed to, one record shaped by the category: speaker and utterance split at
\* the first colon (speaker "user" and the whole line without a colon) for
\* conversations, title "ingested" and the whole line for documents, the whole
\* line and empty metadata for any other category.
C9_IngestShapes ==
    ret.op = "ingest_chat_log" =>
        \A c \in Cats :
            /\ Len(Appended(c)) = Len(RoutedTo(c, ret.text))
            /\ \A i \in 1..Len(Appended(c)) :
                  Shaped(c, RoutedTo(c, ret.text)[i], Appended(c)[i])

\* a line with two colons became a conversation turn and the next line a document
C9_Witness ==
    /\ ret.op = "ingest_chat_log"
    /\ Len(Appended("conversations")) = 1
    /\ Appended("conversations")[1].metadata.speaker = <<"A", "l">>
    /\ Appended("conversations")[1].content = <<"I", " ", "s", "a", "i", "d", ":", " ", "h", "i">>
    /\ Len(Appended("documents")) = 1
    /\ Appended("documents")[1].content = <<"t", "h", "e", " ", "R", "e", "p", "o", "r", "t">>

QwenList(json_text) ==
    LET parsed == json_load(json_text) IN
    OrElse(Get(parsed, "items"), OrElse(Get(parsed, "results"), ListVal(<< >>))).val
\* the category an entry names: its type, else its mem_type, else generic,
\* and generic when the name is no known category
TargetOf(it) ==
    LET name == IF Truthy(Get(it, "type")) THEN Get(it, "type")
                ELSE IF Truthy(Get(it, "mem_type")) THEN Get(it, "mem_type")
                ELSE NameVal("generic")
    IN  IF name.kind = "name" /\ name.val \in Cats THEN name.val ELSE "generic"

\* C11: a successful ingest_qwen_json stores each entry in exactly one module,
\* the one named by its type (else mem_type) when that is a known category and
\* generic otherwise; every stored record's type is the name of the module that
\* holds it; the counts have a key for every category and sum to the number of
\* entries, and they are all zero, with nothing stored, when the text has
\* neither "items" nor "results".
C11_StructuredRouting ==
    (ret.op = "ingest_qwen_json" /\ ret.err = "none") =>
        LET entries == QwenList(ret.text) IN
        /\ DOMAIN ret.counts = Cats
        /\ SumOver(ret.counts, ModuleOrder) = Len(entries)
        /\ \A c \in Cats :
              LET mine == SelectSeq(entries, LAMBDA e : TargetOf(e) = c) IN
              /\ ret.counts[c] = Len(mine)
              /\ Len(Appended(c)) = Len(mine)
              /\ \A i \in 1..Len(Appended(c)) : Appended(c)[i].type = c
        /\ ({"items", "results"} \cap DOMAIN json_load(ret.text).val = {} =>
               \A c \in Cats : ret.counts[c] = 0 /\ Appended(c) = << >>)

\* an entry of unknown type went to generic and the next one to conversations,
\* in a manager that already held a generic record
C11_Witness ==
    /\ ret.op = "ingest_qwen_json"
    /\ ret.err = "none"
    /\ Len(QwenList(ret.text)) = 2
    /\ ret.counts["generic"] = 1
    /\ ret.counts["conversations"] = 1
    /\ ret.before["generic"] >= 1
\* the known categories of a requested list, in the order requested
Known(cats) == SelectSeq(cats, LAMBDA c : c \in Cats)

\* C12 as stated: a query for an unknown category returns the empty sequence,
\* and find_relevant returns what it returns for its list with the unknown
\* names removed; neither changes a module or a file.
C12_UnknownRemoved ==
    [][/\ (ret'.op = "query" /\ ret'.cat \notin Cats) =>
              (ret'.res = << >> /\ items' = items /\ files' = files)
       /\ (ret'.op = "find_relevant" /\ Known(ret'.cats) # ret'.cats) =>
              /\ ret'.res = find_relevant(items[ret'.mgr], ret'.q, Known(ret'.cats), ret'.limit)
              /\ items' = items /\ files' = files]_vars

\* C12: a query for an unknown category returns the empty sequence; find_relevant
\* on a list with unknown names returns what it returns for the list without
\* them when a known name remains, and the empty sequence when none remains;
\* neither changes a module or a file, and the modules and files stay those of
\* the known categories.
C12_UnknownSkipped ==
    [][/\ (ret'.op = "query" /\ ret'.cat \notin Cats) =>
              /\ ret'.res = << >>
              /\ items' = items /\ files' = files
              /\ DOMAIN items'[ret'.mgr] = Cats /\ DOMAIN files' = Cats
       /\ (ret'.op = "find_relevant" /\ Known(ret'.cats) # ret'.cats) =>
              /\ ret'.res = IF Known(ret'.cats) = << >> THEN << >>
                            ELSE find_relevant(items[ret'.mgr], ret'.q, Known(ret'.cats),
                                               ret'.limit)
              /\ items' = items /\ files' = files
              /\ DOMAIN items'[ret'.mgr] = Cats /\ DOMAIN files' = Cats]_vars

\* find_relevant found a record through a list that names an unknown category
C12_Witness ==
    /\ ret.op = "find_relevant"
    /\ ret.cats = <<"documents", "nosuch", "generic">>
    /\ ret.res # << >>
    /\ ret.res = find_relevant(items[ret.mgr], ret.q, <<"documents", "generic">>, ret.limit)
(***************************************************************************)
(* storage.py: JSONStorage.load on a storage directory whose files were    *)
(* left by anyone: a saved list, other JSON values, text that is no JSON.  *)
(***************************************************************************)
FileTexts ==
    { json_dump(<<RecA>>),
      Arr(<< >>),
      Obj(<< >>),
      <<StrTok(<<"h", "i">>)>>,
      <<Punct("null")>>,
      << >>,
      <<Punct("["), Punct("{")>> }
FileStates == {NoFile} \cup {[exists |-> TRUE, data |-> d] : d \in FileTexts}

InitLoad ==
    /\ files \in {[c \in Cats |-> IF c = "generic" THEN f1
                                  ELSE IF c = "conversations" THEN f2 ELSE NoFile] :
                     f1 \in FileStates, f2 \in FileStates}
    /\ wr = Idle
    /\ committed = [c \in Cats |-> << >>]
    /\ attempted = [c \in Cats |-> << >>]
    /\ torn = [c \in Cats |-> FALSE]
    /\ nsaved = [c \in Cats |-> 0]
    /\ nbegun = 0
    /\ items = [m \in Mgrs |-> [c \in Cats |-> << >>]]
    /\ opened = [m \in Mgrs |-> FALSE]
    /\ added = [c \in Cats |-> {}]
    /\ writers = [c \in Cats |-> {}]
    /\ lastWriter = [c \in Cats |-> 0]
    /\ nextId = 0
    /\ ret = [op |-> "none"]

NextLoad ==
    \/ \E c \in StoreCats : Load(c)
    \/ Construct(1)

SpecLoad == InitLoad /\ [][NextLoad]_vars

\* C13: load returns the empty sequence when the category has no file, fails
\* when the file holds text that is not valid JSON or a JSON value that is not
\* an array, and never returns a value that is not a sequence.
C13_LoadArrayOrFail ==
    ret.op = "load" =>
        LET p == files[ret.cat] IN
        /\ ~p.exists => (ret.err = "none" /\ ret.kind = "list" /\ ret.val = << >>)
        /\ (p.exists /\ (json_load(p.data).err # "none" \/ json_load(p.data).kind # "list"))
              => ret.err # "none"
        /\ ret.err = "none" => ret.kind = "list"
\* the record an add, add_turn or add_document has just stored
Stored == items[ret.mgr][ret.cat][Len(items[ret.mgr][ret.cat])]

\* C16: the record stored by add_turn(speaker, text, metadata) has
\* metadata.speaker equal to the speaker argument, and the record stored by
\* add_document(title, text, metadata) has metadata.title equal to the title
\* argument, whatever the caller's metadata says under that key; every other
\* key of the caller's metadata is kept with its value.
C16_ArgumentWins ==
    /\ ret.op = "add_turn" =>
          /\ DOMAIN Stored.metadata = DOMAIN ret.md \cup {"speaker"}
          /\ Stored.metadata.speaker = ret.arg
          /\ \A k \in DOMAIN ret.md \ {"speaker"} : Stored.metadata[k] = ret.md[k]
          /\ load(files, "conversations").val[Len(items[ret.mgr]["conversations"])]
                = Stored
    /\ ret.op = "add_document" =>
          /\ DOMAIN Stored.metadata = DOMAIN ret.md \cup {"title"}
          /\ Stored.metadata.title = ret.arg
          /\ \A k \in DOMAIN ret.md \ {"title"} : Stored.metadata[k] = ret.md[k]
          /\ load(files, "documents").val[Len(items[ret.mgr]["documents"])] = Stored

\* add_turn was given metadata that names another speaker and has other keys
C16_Witness ==
    /\ ret.op = "add_turn"
    /\ "speaker" \in DOMAIN ret.md
    /\ ret.md.speaker # ret.arg
    /\ Stored.metadata.speaker = ret.arg
    /\ "source" \in DOMAIN Stored.metadata
(***************************************************************************)
(* One manager and every operation on it: the adds of the modules, the two *)
(* ingestions, the queries and all().                                      *)
(***************************************************************************)
\* GenericMemory.all on the module c of manager m
All(m, c) ==
    /\ opened[m]
    /\ ret' = [op |-> "all", mgr |-> m, cat |-> c, res |-> items[m][c]]
    /\ UNCHANGED <<files, items, opened, added, writers, lastWriter, nextId>>
    /\ UNCHANGED StoreVars

MgrChatTexts == { <<"c", "h", "a", "t", " ", "n", "o", "t", "e", "s">>, <<"x">> }
MgrChatInputs == {[text |-> t, n |-> NumRecords(t)] : t \in MgrChatTexts}
\* "not json"; an entry of unknown type and a conversation turn; an entry
\* followed by a string where an entry should be
MgrQwenTexts ==
    { <<Punct("word"), Punct("word")>>,
      Obj(Member("results", Arr(
          Obj(Member("mem_type", <<NameTok("bogus")>>)
              \o Member("summary", <<StrTok(<<"h", "i">>)>>))
          \o Obj(Member("type", <<NameTok("conversations")>>)
              \o Member("content", <<StrTok(<<"y", "o">>)>>))))),
      Obj(Member("items", Arr(
          Obj(Member("content", <<StrTok(<<"x">>)>>))
          \o <<StrTok(<<"o", "o", "p", "s">>)>>))) }
MgrQwenInputs == {[text |-> t, n |-> QwenEntries(t)] : t \in MgrQwenTexts}
MgrQuery == <<"x">>
MgrLimit == 1

NextManager ==
    \/ \E c \in WCats, now \in Times : Add(1, c, WText, EmptyDict, now)
    \/ \E now \in Times : AddTurn(1, WSpeaker, WText, EmptyDict, now)
    \/ \E now \in Times : AddDocument(1, WTitle, WText, EmptyDict, now)
    \/ \E inp \in MgrChatInputs :
          \E clock \in Clocks(inp.n) : IngestChatLog(1, inp.text, clock, MaxAdds)
    \/ \E inp \in MgrQwenInputs :
          \E clock \in Clocks(inp.n) : IngestQwenJson(1, inp.text, clock)
    \/ Query(1, "generic", MgrQuery, MgrLimit)
    \/ FindRelevant(1, MgrQuery, << >>, MgrLimit)
    \/ All(1, "generic")

SpecManager == Init /\ [][NextManager]_vars

IsPrefix(s, t) == Len(s) <= Len(t) /\ SubSeq(t, 1, Len(s)) = s

\* C14: records are append-only: in every step of every operation each
\* module's earlier item sequence is a prefix of its later one, and query,
\* find_relevant and all leave every item sequence and every file unchanged.
C14_AppendOnly ==
    [][/\ \A m \in Mgrs : \A c \in Cats : IsPrefix(items[m][c], items'[m][c])
       /\ ret'.op \in {"query", "find_relevant", "all"} =>
              (items' = items /\ files' = files)]_vars

\* a query over a module that holds records from an add and from an ingestion
C14_Witness ==
    /\ ret.op \in {"query", "find_relevant", "all"}
    /\ Len(items[1]["generic"]) >= 2
    /\ \E i, j \in 1..Len(items[1]["generic"]) :
          /\ items[1]["generic"][i].content = WText
          /\ items[1]["generic"][j].content = <<"x">>
    /\ load(files, "generic").val = items[1]["generic"]
\* the categories the entries of a structured text name, whether or not the
\* call gets as far as storing them
QwenTargets(json_text) ==
    IF json_load(json_text).err # "none" THEN {}
    ELSE {TargetOf(e) : e \in {x \in Range(QwenList(json_text)) : x.kind = "dict"}}
\* the categories the call that returned r adds records to
Targets(r) ==
    CASE r.op \in {"add", "add_turn", "add_document"} -> {r.cat}
      [] r.op = "ingest_chat_log" -> {c \in Cats : RoutedTo(c, r.text) # << >>}
      [] r.op = "ingest_qwen_json" -> QwenTargets(r.text)
      [] OTHER -> {}

\* C15: an operation changes the in-memory items and the file of no category
\* other than those it adds a record to, also when it fails part-way.
C15_Isolation ==
    [][\A c \in Cats \ Targets(ret') :
          /\ \A m \in Mgrs : items'[m][c] = items[m][c]
          /\ files'[c] = files[c]]_vars

\* an ingestion stored an entry in generic and then failed, with a record in
\* documents from an earlier call
C15_Witness ==
    /\ ret.op = "ingest_qwen_json"
    /\ ret.err = "AttributeError"
    /\ Len(Appended("generic")) = 1
    /\ items[ret.mgr]["documents"] # << >>
    /\ files["documents"].exists
    /\ load(files, "documents").val = items[ret.mgr]["documents"]

\* C17: a call of ingest_qwen_json that raises has stored nothing: every
\* module's items and every file are as before the call.
C17_AllOrNothing ==
    [][(ret'.op = "ingest_qwen_json" /\ ret'.err # "none")
          => (items' = items /\ files' = files /\ nextId' = nextId)]_vars
====
